---- MODULE Spec2Model ----
(***************************************************************************)
(* A model of the TerrabaseDB server core: the in-memory table behind its  *)
(* reader/writer lock, the GET/SET/UPDATE/FLUSHDB/DBSIZE handlers, the     *)
(* BGSAVE scheduler and the snapshot service, and the CoreDB handle whose  *)
(* Drop implementation starts the shutdown of the background services.     *)
(***************************************************************************)
EXTENDS Integers, Sequences, FiniteSets, TLC

\* ------------------------------------------------------------------ bounds
\* connection tasks the acceptor may spawn
NumConns == 2
\* queries read from all sockets together
MaxCmds == 2
\* distinct one-second timestamps after the first (Utc::now() values)
MaxTime == 1
\* file writes attempted by the two background services together
MaxSaves == 1
\* mksnap calls the snapshot service makes when it is explored on its own
MaxSnaps == 3
\* permits of the connection semaphore (Semaphore::new(10000) in dbnet::run,
\* scaled down so that the acceptor runs out of permits)
MaxPermits == 1
\* the longest key or value sequence of a data file found on disk
MaxFileLen == 2

\* ------------------------------------------------------------- vocabulary
Keys == {"a", "b"}
Vals == {"x", "y"}
\* The iteration order of the table's keys() and values() (one order for both).
KeyOrder == <<"a", "b">>

\* The argument lists a decoded action group may carry (the action name
\* excluded): every list of the right length, and one list of a wrong length
\* (one argument short; one too many for a command that takes none).
ArgLists(arity) ==
    LET all == {<< >>} \cup {<<k>> : k \in Keys} \cup {<<k, v>> : k \in Keys, v \in Vals}
        wrong == IF arity = 0 THEN 1 ELSE arity - 1
    IN {a \in all : Len(a) = arity} \cup {a \in {<< >>, <<"a">>} : Len(a) = wrong}

\* responses::fresp / responses::groups tokens and the typed responses
R_OKAY == <<"OK">>
R_NIL == <<"NIL">>
R_ACTION_ERR == <<"ACTION_ERR">>
R_OVERWRITE_ERR == <<"OVERWRITE_ERR">>
GROUP_NIL == <<"GROUP_NIL">>
GroupBegin(n) == <<"GroupBegin", n>>
BytesWrapper(b) == <<"Bytes", b>>
Usize(n) == <<"usize", n>>

\* ---------------------------------------------------------------- tasks
Conns == 1 .. NumConns
MainTask == 0
BgsaveTask == NumConns + 1
SnapshotTask == NumConns + 2
BgTasks == {BgsaveTask, SnapshotTask}
Tasks == Conns \cup {MainTask} \cup BgTasks
NoTask == NumConns + 3

\* ---------------------------------------------------------------- values
\* Data::from_string: the blob holds the bytes of the string
from_string(val) == [blob |-> val]
\* Data::from_blob
from_blob(blob) == [blob |-> blob]
\* Data::get_blob
get_blob(d) == d.blob

EmptyMap == [k \in {} |-> from_string("x")]
\* HashMap::insert
MapInsert(m, k, d) == [x \in (DOMAIN m) \cup {k} |-> IF x = k THEN d ELSE m[x]]

NoCmd == [op |-> "NONE", args |-> << >>]

\* ------------------------------------------------------------ disk store
PERSIST_FILE == "./data.bin"
NoFile == [kind |-> "absent"]
\* A file that File::create truncated and write_all did not complete
Truncated == [kind |-> "truncated"]
DEF_SNAPSHOT_COUNT == 12
\* the largest max_top a configuration of the model names
MaxTop == 2

Times == 0 .. MaxTime
\* SnapshotEngine::get_snapname: the name holds the UTC time to the second
get_snapname(t) == <<"./snapshots/", t, ".snapshot">>
SnapNames == {get_snapname(t) : t \in Times}

\* data.keys() collected into a Vec, in the map's iteration order
KeysOf(m) == SelectSeq(KeyOrder, LAMBDA k : k \in DOMAIN m)
\* The values collected against the iteration order (a variant)
ValuesOfReversed(m) ==
    LET ord == SelectSeq(KeyOrder, LAMBDA k : k \in DOMAIN m)
    IN [i \in 1 .. Len(ord) |-> get_blob(m[ord[Len(ord) + 1 - i]])]
\* data.values() collected into a Vec<Vec<u8>>, in the same iteration order
ValuesOf(m) ==
    LET ord == SelectSeq(KeyOrder, LAMBDA k : k \in DOMAIN m)
    IN [i \in 1 .. Len(ord) |-> get_blob(m[ord[i]])]
\* The DiskStore pair is what bincode writes and reads back
DiskStore(keys, vals) == [kind |-> "store", keys |-> keys, vals |-> vals]
Min(a, b) == IF a < b THEN a ELSE b
\* get_saved: zip the two sequences and collect into a HashMap (a later pair
\* with the same key replaces an earlier one)
Zip(keys, vals) ==
    LET n == Min(Len(keys), Len(vals))
        last(k) == CHOOSE i \in 1 .. n :
                      keys[i] = k /\ \A j \in 1 .. n : keys[j] = k => j <= i
    IN [k \in {keys[i] : i \in 1 .. n} |-> from_blob(vals[last(k)])]
get_saved(file) == IF file = NoFile THEN EmptyMap ELSE Zip(file.keys, file.vals)
\* get_saved with its TResult<Option<..>>: Ok(None) when the file is not
\* found, the bincode error when the bytes are not a whole DiskStore, and
\* Ok(Some(map)) otherwise
get_saved_result(file) ==
    CASE file = NoFile -> [kind |-> "none"]
      [] file = Truncated -> [kind |-> "err"]
      [] OTHER -> [kind |-> "some", table |-> Zip(file.keys, file.vals)]

\* no get_saved call has returned yet
NotLoaded == [kind |-> "unread"]

\* ------------------------------------------------------------ the queue
\* Queue::new
QueueNew(maxlen, dontpop) == [queue |-> << >>, maxlen |-> maxlen, dontpop |-> dontpop]
\* An overflow test that is one late (a variant)
is_overflow_late(q) == Len(q.queue) > q.maxlen
\* A pop that takes the item inserted last, as Vec::pop does (a variant)
QueuePopLast(q) ==
    IF Len(q.queue) # 0
    THEN [q |-> [q EXCEPT !.queue = SubSeq(q.queue, 1, Len(q.queue) - 1)],
          item |-> <<q.queue[Len(q.queue)]>>]
    ELSE [q |-> q, item |-> << >>]
\* Queue::is_overflow
is_overflow(q) == Len(q.queue) = q.maxlen
\* Queue::pop: removes and returns the head, if any
QueuePop(q) ==
    IF Len(q.queue) # 0
    THEN [q |-> [q EXCEPT !.queue = Tail(q.queue)], item |-> <<Head(q.queue)>>]
    ELSE [q |-> q, item |-> << >>]
\* Queue::add: the queue after the push and the evicted path (<< >> for None)
QueueAdd(q, item) ==
    IF q.dontpop
    THEN [q |-> [q EXCEPT !.queue = Append(q.queue, item)], item |-> << >>]
    ELSE LET x == IF is_overflow(q) THEN QueuePop(q) ELSE [q |-> q, item |-> << >>]
         IN [q |-> [x.q EXCEPT !.queue = Append(x.q.queue, item)], item |-> x.item]
\* SnapshotEngine::new: max_top == 0 keeps everything
EngineQueue(maxtop) ==
    IF maxtop = 0 THEN QueueNew(DEF_SNAPSHOT_COUNT, TRUE) ELSE QueueNew(maxtop, FALSE)

\* ------------------------------------------------------------ the state
VARIABLES
    coremap,      \* Coretable.coremap
    terminate,    \* Coretable.terminate
    lockW,        \* the task holding the table's write lock, or NoTask
    lockR,        \* the tasks holding the table's read lock
    pc,           \* where each task is
    cmd,          \* the query a connection task is executing
    resp,         \* the response items a connection has written for it
    ncmds,        \* queries read so far
    handles,      \* the tasks owning a CoreDB handle (Arc strong references)
    shutdown,     \* the broadcast sender has been dropped
    bgsave_cfg,   \* BGSave::Disabled or Enabled
    ss_config,    \* SnapshotConfig::Disabled or Enabled(atmost)
    bgsave_task,  \* Shared.bgsave_task: [permit, waiters, woken]
    snapshot_service, \* Shared.snapshot_service: [permit, waiters, woken]
    ks,           \* the keys a flush_data call has collected
    snapname,     \* the name a mksnap call has generated
    datafile,     \* the contents of ./data.bin
    snapfiles,    \* the contents of the files under ./snapshots
    snaps,        \* SnapshotEngine.snaps
    now,          \* Utc::now(), in seconds
    nsaves,       \* flushes counted so far (started by a service, or returned Ok)
    budget,       \* flushes the exploration follows (fixed from the start)
    apc,          \* where the acceptor (Listener::run inside dbnet::run) is
    live,         \* the spawned CHandler tasks that have not been torn down
    climit,       \* permits available in the Listener.climit semaphore
    pending,      \* permits the acceptor took and forgot, not yet matched by a task
    backoff,      \* Listener::accept: the local `backoff`
    delays,       \* Listener::accept: the delays served in the current call
    evicted,      \* what the last Queue::add returned (<< >> for None)
    loaded        \* what the last get_saved returned

netVars == <<apc, live, climit, pending, backoff, delays>>
auxVars == <<budget, netVars, evicted, loaded>>
vars == <<coremap, terminate, lockW, lockR, pc, cmd, resp, ncmds, handles,
          shutdown, bgsave_cfg, ss_config, bgsave_task, snapshot_service,
          ks, snapname, datafile, snapfiles, snaps, now, nsaves, auxVars>>

tableVars == <<coremap, terminate>>
lockVars == <<lockW, lockR>>
connVars == <<cmd, resp, ncmds>>
cfgVars == <<bgsave_cfg, ss_config>>
notifyVars == <<bgsave_task, snapshot_service>>
diskVars == <<ks, snapname, datafile, snapfiles, snaps, now, nsaves>>

BGSaveCfgs == {"Disabled", "Enabled"}
SnapshotCfgs == {[enabled |-> FALSE, atmost |-> 0]}
                  \cup {[enabled |-> TRUE, atmost |-> m] : m \in 0 .. MaxTop}
\* The ./data.bin file the server is started on: an earlier run's saved table
InitTables == {[k \in {"a"} |-> from_string("x")]}
InitFiles == {DiskStore(KeysOf(t), ValuesOf(t)) : t \in InitTables}

\* Notify::new
NotifyNew == [permit |-> FALSE, waiters |-> << >>, woken |-> {}]
\* Notify::notify: wake the longest waiting task, or store one permit
NotifyOne(n) ==
    IF n.waiters # << >>
    THEN [n EXCEPT !.waiters = Tail(n.waiters), !.woken = n.woken \cup {Head(n.waiters)}]
    ELSE [n EXCEPT !.permit = TRUE]
\* Notify::notified, first poll: take a stored permit or join the waiters
NotifiedPoll(n, p) ==
    [n EXCEPT !.waiters = Append(n.waiters, p)]
\* a notified() future is ready: its task was woken, or a permit is stored
NotifiedReady(n, p) ==
    \/ p \in n.woken
    \/ n.permit /\ n.waiters # << >> /\ Head(n.waiters) = p
\* the notified() future completes
NotifiedTake(n, p) ==
    IF p \in n.woken
    THEN [n EXCEPT !.woken = n.woken \ {p}]
    ELSE [n EXCEPT !.permit = FALSE, !.waiters = Tail(n.waiters)]
\* the notified() future is dropped without completing (the other select
\* branch won): leave the waiters; a notification already received is passed on
NotifiedDrop(n, p) ==
    IF p \in n.woken
    THEN NotifyOne([n EXCEPT !.woken = n.woken \ {p}])
    ELSE [n EXCEPT !.waiters = SelectSeq(n.waiters, LAMBDA w : w # p)]

\* ------------------------------------------------------------ the lock
\* A write acquisition that does not wait for the readers to leave (a
\* variant the table snapshot property must tell apart from acquire_write)
acquire_write_shared(p) ==
    /\ lockW = NoTask
    /\ lockW' = p
    /\ UNCHANGED lockR
\* A read acquisition that does not wait for a writer to leave (a variant
\* the lock exclusion property must tell apart from acquire_read)
acquire_read_unchecked(p) ==
    /\ lockR' = lockR \cup {p}
    /\ UNCHANGED lockW
\* CoreDB::acquire_write / RwLock::write: exclusive
acquire_write(p) ==
    /\ lockW = NoTask
    /\ lockR = {}
    /\ lockW' = p
    /\ UNCHANGED lockR
\* CoreDB::acquire_read / RwLock::read: shared with other readers
acquire_read(p) ==
    /\ lockW = NoTask
    /\ lockR' = lockR \cup {p}
    /\ UNCHANGED lockW
\* the write guard is dropped
release_write(p) ==
    /\ lockW' = NoTask
    /\ UNCHANGED lockR
\* A read guard that outlives its block (a variant)
release_read_late(p) == UNCHANGED lockVars
\* the read guard is dropped
release_read(p) ==
    /\ lockR' = lockR \ {p}
    /\ UNCHANGED lockW

\* ------------------------------------------------------------ handlers
\* ActionGroup::howmany
howmany(q) == Len(q.args)
\* An arity test that only rejects too few arguments (a variant)
TooFewArgs(q, arity) == howmany(q) < arity
\* the handlers' first test: `howmany != n`
WrongArity(q, arity) == howmany(q) # arity

\* The connection task is in the select of CHandler::run.
Selecting(c) == pc[c] = "wait"

\* Connection::read_query yields the query q to connection c
ReadQuery(c, q) ==
    /\ Selecting(c)
    /\ ncmds < MaxCmds
    /\ ncmds' = ncmds + 1
    /\ cmd' = [cmd EXCEPT ![c] = q]

\* a handler's early return on a wrong number of arguments
ActionErr(c) ==
    /\ resp' = [resp EXCEPT ![c] = <<R_ACTION_ERR>>]
    /\ pc' = [pc EXCEPT ![c] = "resp"]

\* The entry of a handler: the query is read and its arity checked; with the
\* right arity the handler writes `first` and takes the table lock in `mode`
\* (reading the query and writing `first` touch the task's own socket only,
\* and are taken together with the acquisition they precede).
Enter(c, op, arity, mode, first) ==
    /\ \E args \in ArgLists(arity) :
          LET q == [op |-> op, args |-> args]
          IN /\ ReadQuery(c, q)
             /\ IF WrongArity(q, arity)
                THEN /\ ActionErr(c)
                     /\ UNCHANGED lockVars
                ELSE /\ resp' = [resp EXCEPT ![c] = first]
                     /\ IF mode = "write"
                        THEN acquire_write(c) /\ pc' = [pc EXCEPT ![c] = "csW"]
                        ELSE acquire_read(c) /\ pc' = [pc EXCEPT ![c] = "csR"]
    /\ UNCHANGED <<tableVars, handles, shutdown, cfgVars, auxVars, notifyVars, diskVars>>

\* An insert that overwrites an occupied entry before reporting it (a variant)
SetEntryOverwrite(m, k, v) ==
    [map |-> MapInsert(m, k, from_string(v)), did_we |-> k \notin DOMAIN m]
\* A replace that creates a vacant entry before reporting it (a variant)
UpdateEntryCreate(m, k, v) ==
    [map |-> MapInsert(m, k, from_string(v)), did_we |-> k \in DOMAIN m]
\* A lookup under the action name instead of the key: never found (a variant)
GetEntryMiss(m, k) == << >>
\* A length left at the zero `len` is declared with (a variant)
LenZero(m) == 0

\* set.rs, the block under the write lock: insert only into a vacant entry
SetEntry(m, k, v) ==
    IF k \notin DOMAIN m
    THEN [map |-> MapInsert(m, k, from_string(v)), did_we |-> TRUE]
    ELSE [map |-> m, did_we |-> FALSE]

\* update.rs, the block under the write lock: replace only an occupied entry
UpdateEntry(m, k, v) ==
    IF k \in DOMAIN m
    THEN [map |-> MapInsert(m, k, from_string(v)), did_we |-> TRUE]
    ELSE [map |-> m, did_we |-> FALSE]

\* get.rs, the block under the read lock: the blob of the key, if any
GetEntry(m, k) == IF k \in DOMAIN m THEN <<get_blob(m[k])>> ELSE << >>

\* flushdb.rs, the block under the write lock: HashMap::clear
ClearMap(m) == EmptyMap

\* dbsize.rs, the block under the read lock: HashMap::len assigned to len
LenMap(m) == Cardinality(DOMAIN m)

SetApply(c) ==
    /\ pc[c] = "csW"
    /\ cmd[c].op = "SET"
    /\ LET r == SetEntry(coremap, cmd[c].args[1], cmd[c].args[2])
       IN /\ coremap' = r.map
          /\ resp' = [resp EXCEPT ![c] =
                         IF r.did_we THEN <<R_OKAY>> ELSE <<R_OVERWRITE_ERR>>]
    /\ release_write(c)
    /\ pc' = [pc EXCEPT ![c] = "resp"]
    /\ UNCHANGED <<terminate, cmd, ncmds, handles, shutdown, cfgVars, auxVars,
                   notifyVars, diskVars>>

UpdateApply(c) ==
    /\ pc[c] = "csW"
    /\ cmd[c].op = "UPDATE"
    /\ LET r == UpdateEntry(coremap, cmd[c].args[1], cmd[c].args[2])
       IN /\ coremap' = r.map
          /\ resp' = [resp EXCEPT ![c] =
                         IF r.did_we THEN <<R_OKAY>> ELSE <<R_NIL>>]
    /\ release_write(c)
    /\ pc' = [pc EXCEPT ![c] = "resp"]
    /\ UNCHANGED <<terminate, cmd, ncmds, handles, shutdown, cfgVars, auxVars,
                   notifyVars, diskVars>>

\* A flush that replaces the whole Coretable by a fresh one, the terminate
\* flag included (a variant)
FlushdbReset(c) ==
    /\ pc[c] = "csW"
    /\ cmd[c].op = "FLUSHDB"
    /\ coremap' = EmptyMap
    /\ terminate' = FALSE
    /\ resp' = [resp EXCEPT ![c] = <<R_OKAY>>]
    /\ release_write(c)
    /\ pc' = [pc EXCEPT ![c] = "resp"]
    /\ UNCHANGED <<cmd, ncmds, handles, shutdown, cfgVars, auxVars, notifyVars, diskVars>>

FlushdbApply(c) ==
    /\ pc[c] = "csW"
    /\ cmd[c].op = "FLUSHDB"
    /\ coremap' = ClearMap(coremap)
    /\ resp' = [resp EXCEPT ![c] = <<R_OKAY>>]
    /\ release_write(c)
    /\ pc' = [pc EXCEPT ![c] = "resp"]
    /\ UNCHANGED <<terminate, cmd, ncmds, handles, shutdown, cfgVars, auxVars,
                   notifyVars, diskVars>>

GetApply(c) ==
    /\ pc[c] = "csR"
    /\ cmd[c].op = "GET"
    /\ LET res == GetEntry(coremap, cmd[c].args[1])
       IN resp' = [resp EXCEPT ![c] =
                      Append(@, IF res # << >> THEN BytesWrapper(res[1]) ELSE GROUP_NIL)]
    /\ release_read(c)
    /\ pc' = [pc EXCEPT ![c] = "resp"]
    /\ UNCHANGED <<tableVars, cmd, ncmds, handles, shutdown, cfgVars, auxVars,
                   notifyVars, diskVars>>

DbsizeApply(c) ==
    /\ pc[c] = "csR"
    /\ cmd[c].op = "DBSIZE"
    /\ LET len == LenMap(coremap)
       IN resp' = [resp EXCEPT ![c] = <<GroupBegin(1), Usize(len)>>]
    /\ release_read(c)
    /\ pc' = [pc EXCEPT ![c] = "resp"]
    /\ UNCHANGED <<tableVars, cmd, ncmds, handles, shutdown, cfgVars, auxVars,
                   notifyVars, diskVars>>

\* kvengine::set::set
set(c) ==
    \/ Enter(c, "SET", 2, "write", << >>)
    \/ SetApply(c)
\* kvengine::update::update
update(c) ==
    \/ Enter(c, "UPDATE", 2, "write", << >>)
    \/ UpdateApply(c)
\* kvengine::get::get
get(c) ==
    \/ Enter(c, "GET", 1, "read", <<GroupBegin(1)>>)
    \/ GetApply(c)
\* kvengine::flushdb::flushdb
flushdb(c) ==
    \/ Enter(c, "FLUSHDB", 0, "write", << >>)
    \/ FlushdbApply(c)
\* kvengine::dbsize::dbsize
dbsize(c) ==
    \/ Enter(c, "DBSIZE", 0, "read", << >>)
    \/ DbsizeApply(c)

\* CoreDB::execute_query, after the handler: con.flush_stream(); the
\* connection task goes back to its select
FlushStream(c) ==
    /\ pc[c] = "resp"
    /\ pc' = [pc EXCEPT ![c] = "wait"]
    /\ cmd' = [cmd EXCEPT ![c] = NoCmd]
    /\ resp' = [resp EXCEPT ![c] = << >>]
    /\ UNCHANGED <<tableVars, lockVars, ncmds, handles, shutdown, cfgVars, auxVars,
                   notifyVars, diskVars>>

\* ------------------------------------------------------------ the handle
\* CoreDB::new: the number of background services the configuration enables
background_tasks ==
    (IF ss_config.enabled THEN 1 ELSE 0) + (IF bgsave_cfg # "Disabled" THEN 1 ELSE 0)
\* CoreDB::expected_strong_count
expected_strong_count == background_tasks + 1
\* Arc::strong_count(&self.shared)
strong_count == Cardinality(handles)

\* Drop for CoreDB, the test of line 255, as task p leaves `at`
DropTest(p) ==
    pc' = [pc EXCEPT ![p] =
              IF strong_count = expected_strong_count THEN "drop_lock" ELSE "drop_arc"]
\* a background service has returned and its handle is dropped
DropCheck(p) ==
    /\ pc[p] = "drop"
    /\ DropTest(p)
    /\ UNCHANGED <<tableVars, lockVars, connVars, handles, shutdown, cfgVars, auxVars,
                   notifyVars, diskVars>>
\* Drop for CoreDB: self.shared.table.write()
DropLock(p) ==
    /\ pc[p] = "drop_lock"
    /\ acquire_write(p)
    /\ pc' = [pc EXCEPT ![p] = "drop_set"]
    /\ UNCHANGED <<tableVars, connVars, handles, shutdown, cfgVars, auxVars,
                   notifyVars, diskVars>>
\* A drop that releases the lock and notifies with the flag left unset (a
\* variant)
DropSetSkipped(p) ==
    /\ pc[p] = "drop_set"
    /\ release_write(p)
    /\ pc' = [pc EXCEPT ![p] = "drop_notify"]
    /\ UNCHANGED <<tableVars, connVars, handles, shutdown, cfgVars, auxVars,
                   notifyVars, diskVars>>
\* Drop for CoreDB: coretable.terminate = true; drop(coretable)
DropSet(p) ==
    /\ pc[p] = "drop_set"
    /\ terminate' = TRUE
    /\ release_write(p)
    /\ pc' = [pc EXCEPT ![p] = "drop_notify"]
    /\ UNCHANGED <<coremap, connVars, handles, shutdown, cfgVars, auxVars,
                   notifyVars, diskVars>>
\* Drop for CoreDB: self.shared.bgsave_task.notify(), then
\* self.shared.snapshot_service.notify() (which no task awaits: the second
\* call is seen by nobody and is taken together with the first)
DropNotify(p) ==
    /\ pc[p] = "drop_notify"
    /\ bgsave_task' = NotifyOne(bgsave_task)
    /\ snapshot_service' = NotifyOne(snapshot_service)
    /\ pc' = [pc EXCEPT ![p] = "drop_arc"]
    /\ UNCHANGED <<tableVars, lockVars, connVars, handles, shutdown, cfgVars, auxVars,
                   diskVars>>
\* after Drop::drop the Arc field is dropped: the strong count goes down
DropArc(p) ==
    /\ pc[p] = "drop_arc"
    /\ handles' = handles \ {p}
    /\ pc' = [pc EXCEPT ![p] = "gone"]
    /\ UNCHANGED <<tableVars, lockVars, connVars, shutdown, cfgVars, auxVars,
                   notifyVars, diskVars>>
\* impl Drop for CoreDB, for the handle of task p
drop(p) ==
    \/ DropCheck(p)
    \/ DropLock(p)
    \/ DropSet(p)
    \/ DropNotify(p)
    \/ DropArc(p)

\* ------------------------------------------------------------ the server
\* A drain channel on which only the acceptor holds a sender, the handlers
\* none (a variant the drain property must tell apart from drain_senders)
drain_senders_own == IF pc[MainTask] = "run" THEN {MainTask} ELSE {}
\* The tasks holding a sender of the drain channel: dbnet::run holds
\* terminate_tx until it drops it after its select, and every CHandler holds
\* the clone in _term_sig_tx, its last field, until the task has dropped it
drain_senders ==
    {c \in Conns : pc[c] \notin {"none", "gone"}}
        \cup (IF pc[MainTask] = "run" THEN {MainTask} ELSE {})
\* Listener::run: a connection is accepted and its handler spawned with a
\* clone of the handle
Accept(c) ==
    /\ pc[MainTask] = "run"
    /\ pc[c] = "none"
    /\ \A d \in Conns : d < c => pc[d] # "none"
    /\ handles' = handles \cup {c}
    /\ pc' = [pc EXCEPT ![c] = "wait"]
    /\ UNCHANGED <<tableVars, lockVars, connVars, shutdown, cfgVars, auxVars,
                   notifyVars, diskVars>>
\* dbnet::run: the select ends (the signal fired, or accept gave up) and the
\* broadcast sender is dropped
Shutdown ==
    /\ pc[MainTask] = "run"
    /\ shutdown' = TRUE
    /\ pc' = [pc EXCEPT ![MainTask] = "drain"]
    /\ UNCHANGED <<tableVars, lockVars, connVars, handles, cfgVars, auxVars,
                   notifyVars, diskVars>>
\* dbnet::run: terminate_rx.recv() returns once every handler is gone; the
\* rest of the Listener, its db handle included, is dropped on return
Drained ==
    /\ pc[MainTask] = "drain"
    /\ drain_senders = {}
    /\ DropTest(MainTask)
    /\ UNCHANGED <<tableVars, lockVars, connVars, handles, shutdown, cfgVars, auxVars,
                   notifyVars, diskVars>>
\* CHandler::run: the select's receive_signal branch, and the return
ReceiveSignal(c) ==
    /\ Selecting(c)
    /\ shutdown
    /\ DropTest(c)
    /\ UNCHANGED <<tableVars, lockVars, connVars, handles, shutdown, cfgVars, auxVars,
                   notifyVars, diskVars>>
\* CHandler::run: read_query fails and the connection is closed
CloseConn(c) ==
    /\ Selecting(c)
    /\ DropTest(c)
    /\ UNCHANGED <<tableVars, lockVars, connVars, handles, shutdown, cfgVars, auxVars,
                   notifyVars, diskVars>>

\* ------------------------------------------------ background services
\* A configuration match that never takes the Disabled arm (a variant)
DisabledNever(p) == FALSE
\* whether the configuration disables the service task p runs
Disabled(p) ==
    IF p = BgsaveTask THEN bgsave_cfg = "Disabled" ELSE ~ss_config.enabled

FlushOutcomes == {"ok", "create_err", "write_err"}
\* diskstore::flush_data: the file after the call. The key sequence was
\* collected first and the value sequence is collected now; File::create
\* fails and leaves the file, or write_all fails and leaves it truncated.
flush_data(old, keys, data, outcome) ==
    CASE outcome = "ok" -> DiskStore(keys, ValuesOf(data))
      [] outcome = "create_err" -> old
      [] OTHER -> Truncated

\* The task is first polled. A disabled service parks on bgsave_task;
\* the snapshot service builds its engine, and returns if that fails.
Start(p, engine_ok) ==
    /\ pc[p] = "start"
    /\ IF Disabled(p)
       THEN /\ pc' = [pc EXCEPT ![p] = "parkd"]
            /\ bgsave_task' = NotifiedPoll(bgsave_task, p)
       ELSE /\ pc' = [pc EXCEPT ![p] =
                         IF p = SnapshotTask /\ ~engine_ok THEN "drop" ELSE "check"]
            /\ UNCHANGED bgsave_task
    /\ UNCHANGED <<tableVars, lockVars, connVars, handles, shutdown, cfgVars, auxVars,
                   snapshot_service, diskVars>>

\* Shared::is_termsig, the loop condition of both services
is_termsig(p) ==
    /\ pc[p] = "check"
    /\ lockW = NoTask
    /\ pc' = [pc EXCEPT ![p] = IF terminate THEN "drop" ELSE "save"]
    /\ UNCHANGED <<tableVars, lockVars, connVars, handles, shutdown, cfgVars, auxVars,
                   notifyVars, diskVars>>

\* the service awaits bgsave_task.notified() alone
Park(p) ==
    /\ pc' = [pc EXCEPT ![p] = "park"]
    /\ bgsave_task' = NotifiedPoll(bgsave_task, p)

\* A flush that goes ahead whatever the flag (a variant)
rlock_terminate_ignored == FALSE
\* `if rlock.terminate`, read under the read lock just taken
rlock_terminate == terminate

\* Shared::run_bgsave / SnapshotEngine::mksnap, up to the terminate check:
\* the read lock is taken; on terminate the call returns false and the
\* service awaits bgsave_task.notified(); otherwise flush_data is entered
\* and collects the keys (line 75)
SaveBegin(p) ==
    /\ pc[p] = "save"
    /\ IF rlock_terminate
       THEN /\ lockW = NoTask
            /\ Park(p)
            /\ UNCHANGED <<lockVars, snapname, nsaves, ks>>
       ELSE /\ nsaves < budget
            /\ nsaves' = nsaves + 1
            /\ acquire_read(p)
            /\ pc' = [pc EXCEPT ![p] = "write"]
            /\ snapname' = IF p = SnapshotTask THEN get_snapname(now) ELSE snapname
            /\ ks' = [ks EXCEPT ![p] = KeysOf(coremap)]
            /\ UNCHANGED bgsave_task
    /\ UNCHANGED <<tableVars, connVars, handles, shutdown, cfgVars, auxVars,
                   snapshot_service, datafile, snapfiles, snaps, now>>

\* the service enters its select of the interval timer and bgsave_task
Sleep(p) ==
    /\ pc' = [pc EXCEPT ![p] = "sleep"]
    /\ bgsave_task' = NotifiedPoll(bgsave_task, p)
\* the branch the service's loop takes on what run_bgsave or mksnap returned
AfterSave(p, active) == IF active THEN Sleep(p) ELSE Park(p)

\* A run_bgsave that reports a failed flush as a shutdown (a variant)
run_bgsave_strict(outcome) == outcome = "ok"
\* Shared::run_bgsave past the terminate test: the result of flush_data is
\* logged and true is returned
run_bgsave(outcome) == TRUE
\* A mksnap that reports a failed flush as a shutdown (a variant)
mksnap_strict(outcome) == outcome = "ok"
\* SnapshotEngine::mksnap past the terminate test: true on both paths
mksnap(outcome) == TRUE

\* Shared::run_bgsave, from flush_data line 76 on: the values are collected,
\* the file written, the read lock released; true is returned either way
BgsaveWrite(outcome) ==
    /\ pc[BgsaveTask] = "write"
    /\ datafile' = flush_data(datafile, ks[BgsaveTask], coremap, outcome)
    /\ ks' = [ks EXCEPT ![BgsaveTask] = << >>]
    /\ release_read(BgsaveTask)
    /\ AfterSave(BgsaveTask, run_bgsave(outcome))
    /\ UNCHANGED <<tableVars, connVars, handles, shutdown, cfgVars, auxVars,
                   snapshot_service, snapname, snapfiles, snaps, now, nsaves>>

\* SnapshotEngine::mksnap, from flush_data line 76 on: the file is written
\* and the read lock released; after a successful write the name is queued
\* and the evicted snapshot, if any, removed (a failed removal is logged)
MksnapWrite(outcome, rm_ok) ==
    /\ pc[SnapshotTask] = "write"
    /\ LET written == [snapfiles EXCEPT ![snapname] =
                          flush_data(@, ks[SnapshotTask], coremap, outcome)]
           added == QueueAdd(snaps, snapname)
       IN IF outcome # "ok"
          THEN /\ snapfiles' = written
               /\ rm_ok
               /\ UNCHANGED snaps
          ELSE /\ snaps' = added.q
               /\ IF added.item # << >>
                  THEN snapfiles' = IF rm_ok
                                    THEN [written EXCEPT ![added.item[1]] = NoFile]
                                    ELSE written
                  ELSE rm_ok /\ snapfiles' = written
    /\ ks' = [ks EXCEPT ![SnapshotTask] = << >>]
    /\ release_read(SnapshotTask)
    /\ AfterSave(SnapshotTask, mksnap(outcome))
    /\ UNCHANGED <<tableVars, connVars, handles, shutdown, cfgVars, auxVars,
                   snapshot_service, snapname, datafile, now, nsaves>>

\* the select's delay_until branch: the interval has passed (the model lets
\* it pass while a flush may still follow it: before MaxSaves, or on shutdown)
Timer(p) ==
    /\ pc[p] = "sleep"
    /\ nsaves < budget \/ terminate
    /\ p \in bgsave_task.woken \/ ~NotifiedReady(bgsave_task, p)
    /\ bgsave_task' = NotifiedDrop(bgsave_task, p)
    /\ pc' = [pc EXCEPT ![p] = "check"]
    /\ UNCHANGED <<tableVars, lockVars, connVars, handles, shutdown, cfgVars, auxVars,
                   snapshot_service, diskVars>>

\* bgsave_task.notified() completes: a disabled service returns, an enabled
\* one goes back to its loop condition
Notified(p) ==
    /\ pc[p] \in {"sleep", "park", "parkd"}
    /\ NotifiedReady(bgsave_task, p)
    /\ bgsave_task' = NotifiedTake(bgsave_task, p)
    /\ pc' = [pc EXCEPT ![p] = IF pc[p] = "parkd" THEN "drop" ELSE "check"]
    /\ UNCHANGED <<tableVars, lockVars, connVars, handles, shutdown, cfgVars, auxVars,
                   snapshot_service, diskVars>>

\* diskstore::bgsave_scheduler
bgsave_scheduler ==
    \/ Start(BgsaveTask, TRUE)
    \/ is_termsig(BgsaveTask)
    \/ SaveBegin(BgsaveTask)
    \/ \E outcome \in FlushOutcomes : BgsaveWrite(outcome)
    \/ Timer(BgsaveTask)
    \/ Notified(BgsaveTask)

\* diskstore::snapshot::snapshot_service
snapshot_service_task ==
    \/ \E engine_ok \in BOOLEAN : Start(SnapshotTask, engine_ok)
    \/ is_termsig(SnapshotTask)
    \/ SaveBegin(SnapshotTask)
    \/ \E outcome \in FlushOutcomes, rm_ok \in BOOLEAN : MksnapWrite(outcome, rm_ok)
    \/ Timer(SnapshotTask)
    \/ Notified(SnapshotTask)

\* Utc::now() moves on to the next second
Tick ==
    /\ now < MaxTime
    /\ now' = now + 1
    /\ UNCHANGED <<tableVars, lockVars, pc, connVars, handles, shutdown, cfgVars, auxVars,
                   notifyVars, ks, snapname, datafile, snapfiles, snaps, nsaves>>

\* ------------------------------------------------------------ the system
\* CoreDB::new: the table is what get_saved reads from ./data.bin (empty if
\* there is none), terminate is false, both services are spawned with a clone
\* the table and the data file it was restored from
InitStore ==
    /\ datafile \in InitFiles
    /\ coremap = get_saved(datafile)
    /\ loaded = NotLoaded
\* the tasks, the lock, the notifiers and the snapshot directory
InitTasks ==
    /\ terminate = FALSE
    /\ lockW = NoTask
    /\ lockR = {}
    /\ pc = [p \in Tasks |-> CASE p = MainTask -> "run"
                               [] p \in BgTasks -> "start"
                               [] OTHER -> "none"]
    /\ cmd = [c \in Conns |-> NoCmd]
    /\ resp = [c \in Conns |-> << >>]
    /\ ncmds = 0
    /\ handles = {MainTask} \cup BgTasks
    /\ shutdown = FALSE
    /\ bgsave_task = NotifyNew
    /\ snapshot_service = NotifyNew
    /\ ks = [p \in BgTasks |-> << >>]
    /\ snapname = get_snapname(0)
    /\ snapfiles = [f \in SnapNames |-> NoFile]
    /\ now = 0
    /\ nsaves = 0
\* the configuration the server is started with
InitConfig ==
    /\ bgsave_cfg \in BGSaveCfgs
    /\ ss_config \in {s \in SnapshotCfgs : s.enabled => s.atmost = MaxTop}
\* SnapshotEngine::new: the engine starts on an empty queue
InitQueue ==
    /\ snaps = EngineQueue(ss_config.atmost)
    /\ evicted = << >>
\* dbnet::run: the Listener as constructed, its acceptor not yet polled
InitNet ==
    /\ apc = "acquire"
    /\ live = {}
    /\ climit = MaxPermits
    /\ pending = 0
    /\ backoff = 1
    /\ delays = << >>

Init ==
    /\ InitConfig
    /\ InitStore
    /\ InitTasks
    /\ InitQueue
    /\ InitNet
    /\ budget = MaxSaves

Next ==
    \/ \E c \in Conns : set(c)
    \/ \E c \in Conns : update(c)
    \/ \E c \in Conns : get(c)
    \/ \E c \in Conns : flushdb(c)
    \/ \E c \in Conns : dbsize(c)
    \/ \E c \in Conns : FlushStream(c)
    \/ \E c \in Conns : Accept(c)
    \/ \E c \in Conns : ReceiveSignal(c)
    \/ \E c \in Conns : CloseConn(c)
    \/ Shutdown
    \/ Drained
    \/ \E p \in Tasks : drop(p)
    \/ bgsave_scheduler
    \/ snapshot_service_task

Spec == Init /\ [][Next]_vars

\* The life of the server without its queries: connections come and go, the
\* server shuts down, the background services run. The runtime polls every
\* task that can run and the timers fire, so each task that stays able to
\* take a step takes one.
NextLife ==
    \/ \E c \in Conns : Accept(c)
    \/ \E c \in Conns : ReceiveSignal(c)
    \/ \E c \in Conns : CloseConn(c)
    \/ Shutdown
    \/ Drained
    \/ \E p \in Tasks : drop(p)
    \/ bgsave_scheduler
    \/ snapshot_service_task

LiveSpec ==
    /\ Init
    /\ [][NextLife]_vars
    /\ WF_vars(bgsave_scheduler)
    /\ WF_vars(snapshot_service_task)
    /\ \A p \in Tasks : WF_vars(drop(p))


\* ---------------------------------------------- the snapshot service alone
\* The snapshot service of a running server, followed through MaxSnaps
\* mksnap calls while the clock advances between them or does not; the
\* removal of an evicted snapshot succeeds.
SnapInit ==
    /\ bgsave_cfg = "Disabled"
    /\ ss_config \in {c \in SnapshotCfgs : c.enabled}
    /\ InitStore
    /\ InitTasks
    /\ InitQueue
    /\ InitNet
    /\ budget = MaxSnaps

SnapNext ==
    \/ Start(SnapshotTask, TRUE)
    \/ is_termsig(SnapshotTask)
    \/ SaveBegin(SnapshotTask)
    \/ \E outcome \in FlushOutcomes : MksnapWrite(outcome, TRUE)
    \/ Timer(SnapshotTask)
    \/ Tick

SnapSpec == SnapInit /\ [][SnapNext]_vars

\* ------------------------------------------------ the connections' shutdown
\* The server with its clients and its queries while the services make no
\* write (both are enabled and stand before their first flush). The runtime polls every task that can run: a handler that can
\* take a step of its own takes one, a handler whose shutdown receiver is
\* ready is polled, and a dropped handle finishes its drop. Nothing makes a
\* client send a query or close its socket.
ShutInit ==
    /\ InitConfig
    /\ bgsave_cfg = "Enabled"
    /\ ss_config.enabled
    /\ InitStore
    /\ InitTasks
    /\ InitQueue
    /\ InitNet
    /\ budget = 0

\* a step of connection c's handler that needs no input from the client
HandlerStep(c) ==
    \/ SetApply(c)
    \/ UpdateApply(c)
    \/ FlushdbApply(c)
    \/ GetApply(c)
    \/ DbsizeApply(c)
    \/ FlushStream(c)

ShutNext ==
    \/ \E c \in Conns : set(c)
    \/ \E c \in Conns : update(c)
    \/ \E c \in Conns : get(c)
    \/ \E c \in Conns : flushdb(c)
    \/ \E c \in Conns : dbsize(c)
    \/ \E c \in Conns : FlushStream(c)
    \/ \E c \in Conns : Accept(c)
    \/ \E c \in Conns : ReceiveSignal(c)
    \/ \E c \in Conns : CloseConn(c)
    \/ Shutdown
    \/ Drained
    \/ \E p \in Tasks : drop(p)
    \/ \E p \in BgTasks : Start(p, TRUE)
    \/ \E p \in BgTasks : is_termsig(p)
    \/ \E p \in BgTasks : SaveBegin(p)
    \/ \E p \in BgTasks : Notified(p)

ShutSpec ==
    /\ ShutInit
    /\ [][ShutNext]_vars
    /\ \A c \in Conns : WF_pc(HandlerStep(c))
    /\ \A c \in Conns : WF_pc(ReceiveSignal(c))
    /\ \A p \in Tasks : WF_pc(drop(p))

\* ------------------------------------------------ the services on their own
\* Both background services of a server without clients, under every
\* configuration, followed through MaxSnaps writes and through the shutdown
\* (dbnet::run leaves its select, finds the drain channel closed and drops
\* its handle).
SvcInit ==
    /\ InitConfig
    /\ InitStore
    /\ InitTasks
    /\ InitQueue
    /\ InitNet
    /\ budget = MaxSnaps

SvcNext ==
    \/ bgsave_scheduler
    \/ snapshot_service_task
    \/ Shutdown
    \/ Drained
    \/ \E p \in Tasks : drop(p)
    \/ Tick

SvcSpec == SvcInit /\ [][SvcNext]_vars

\* ------------------------------------------------------- the queue alone
\* Queue::add called on the engine's queue with the path `item`; a queue
\* that never pops is followed to one item past its capacity hint
QAdd(item) ==
    /\ snaps.dontpop => Len(snaps.queue) <= snaps.maxlen
    /\ LET r == QueueAdd(snaps, item)
       IN /\ snaps' = r.q
          /\ evicted' = r.item
    /\ UNCHANGED <<tableVars, lockVars, pc, connVars, handles, shutdown, cfgVars,
                   notifyVars, ks, snapname, datafile, snapfiles, now, nsaves,
                   budget, netVars, loaded>>

QueueInit ==
    /\ bgsave_cfg = "Disabled"
    /\ ss_config \in {c \in SnapshotCfgs : c.enabled}
    /\ InitStore
    /\ InitTasks
    /\ InitQueue
    /\ InitNet
    /\ budget = 0

QueueNext == \E item \in SnapNames : QAdd(item)

QueueSpec == QueueInit /\ [][QueueNext]_vars

\* ------------------------------------------------ the codec on its own
\* flush_data and get_saved applied to any table and any file found on disk
SeqsUpTo(S, n) == UNION {[1 .. k -> S] : k \in 0 .. n}
AllTables == UNION {[d -> {from_string(v) : v \in Vals}] : d \in SUBSET Keys}
\* what fs::read can find at the path: nothing, bytes that are not a whole
\* encoding, or the encoding of any pair of sequences
AllFiles ==
    {NoFile, Truncated}
        \cup {DiskStore(k, v) : k \in SeqsUpTo(Keys, MaxFileLen),
                                v \in SeqsUpTo(Vals, MaxFileLen)}

CodecInit ==
    /\ InitConfig
    /\ datafile \in AllFiles
    /\ coremap \in AllTables
    /\ loaded = NotLoaded
    /\ InitTasks
    /\ InitQueue
    /\ InitNet
    /\ budget = MaxSaves
    /\ bgsave_cfg = "Disabled"
    /\ ~ss_config.enabled

\* diskstore::flush_data(PERSIST_FILE, &table); nsaves counts the calls that
\* returned Ok
CodecFlush(outcome) ==
    /\ datafile' = flush_data(datafile, KeysOf(coremap), coremap, outcome)
    /\ nsaves' = IF outcome = "ok" /\ nsaves < budget THEN nsaves + 1 ELSE nsaves
    /\ UNCHANGED <<tableVars, lockVars, pc, connVars, handles, shutdown, cfgVars,
                   notifyVars, ks, snapname, snapfiles, snaps, now,
                   budget, netVars, evicted, loaded>>

\* diskstore::get_saved(None)
CodecLoad ==
    /\ loaded' = [kind |-> "read", file |-> datafile,
                  res |-> get_saved_result(datafile)]
    /\ UNCHANGED <<tableVars, lockVars, pc, connVars, handles, shutdown, cfgVars,
                   notifyVars, ks, snapname, datafile, snapfiles, snaps, now,
                   nsaves, budget, netVars, evicted>>

CodecNext ==
    \/ \E outcome \in FlushOutcomes : CodecFlush(outcome)
    \/ CodecLoad

CodecSpec == CodecInit /\ [][CodecNext]_vars

\* ------------------------------------------------ the acceptor on its own
\* Listener::run and Listener::accept with the connection limit; a handler
\* is followed from its spawn to its teardown only
\* the largest backoff after which a failed accept is still retried
MAX_BACKOFF == 64
\* A retry test that gives up one failure early (a variant)
too_many_retries_early(b) == b >= MAX_BACKOFF
\* Listener::accept: `if backoff > 64`
too_many_retries(b) == b > MAX_BACKOFF
\* An acquire that completes without a permit (a variant)
can_acquire_always(sem) == TRUE
\* Semaphore::acquire completes only when a permit is available
can_acquire(sem) == sem > 0
\* A teardown that returns one permit too many (a variant)
add_permits_twice(sem, n) == sem + n + n
\* Semaphore::add_permits
add_permits(sem, n) == sem + n

NetInit ==
    /\ InitConfig
    /\ bgsave_cfg = "Disabled"
    /\ ~ss_config.enabled
    /\ InitStore
    /\ InitTasks
    /\ InitQueue
    /\ InitNet
    /\ budget = MaxSaves

\* Listener::run: climit.acquire().await.forget(), then the call of
\* self.accept(), which starts with backoff = 1 and awaits the socket
NetAcquire ==
    /\ pc[MainTask] = "run"
    /\ apc = "acquire"
    /\ can_acquire(climit)
    /\ climit' = climit - 1
    /\ pending' = pending + 1
    /\ backoff' = 1
    /\ delays' = << >>
    /\ apc' = "accept"
    /\ UNCHANGED <<tableVars, lockVars, pc, connVars, handles, shutdown, cfgVars,
                   notifyVars, diskVars, budget, live, evicted, loaded>>

\* Listener::accept returns Ok(stream); Listener::run builds the CHandler,
\* spawns its task and loops to the next acquire
NetAcceptOk(c) ==
    /\ pc[MainTask] = "run"
    /\ apc = "accept"
    /\ pc[c] = "none"
    /\ \A d \in Conns : d < c => pc[d] # "none"
    /\ live' = live \cup {c}
    /\ pending' = pending - 1
    /\ handles' = handles \cup {c}
    /\ pc' = [pc EXCEPT ![c] = "wait"]
    /\ apc' = "acquire"
    /\ UNCHANGED <<tableVars, lockVars, connVars, shutdown, cfgVars,
                   notifyVars, diskVars, budget, climit, backoff, delays,
                   evicted, loaded>>

\* Listener::accept: the socket's accept fails; the error is returned (and
\* Listener::run returns it) when the backoff has passed the limit, and the
\* delay is awaited otherwise
NetAcceptErr ==
    /\ pc[MainTask] = "run"
    /\ apc = "accept"
    /\ apc' = IF too_many_retries(backoff) THEN "error" ELSE "delay"
    /\ UNCHANGED <<tableVars, lockVars, pc, connVars, handles, shutdown, cfgVars,
                   notifyVars, diskVars, budget, live, climit, pending, backoff,
                   delays, evicted, loaded>>

\* Listener::accept: delay_for(backoff) elapses, backoff *= 2, next attempt
NetDelay ==
    /\ pc[MainTask] = "run"
    /\ apc = "delay"
    /\ delays' = Append(delays, backoff)
    /\ backoff' = backoff * 2
    /\ apc' = "accept"
    /\ UNCHANGED <<tableVars, lockVars, pc, connVars, handles, shutdown, cfgVars,
                   notifyVars, diskVars, budget, live, climit, pending,
                   evicted, loaded>>

\* CHandler::run returns and the task drops its CHandler: Drop::drop adds
\* one permit, then the fields (the db handle among them) are dropped
NetTeardown(c) ==
    /\ c \in live
    /\ live' = live \ {c}
    /\ climit' = add_permits(climit, 1)
    /\ handles' = handles \ {c}
    /\ pc' = [pc EXCEPT ![c] = "gone"]
    /\ UNCHANGED <<tableVars, lockVars, connVars, shutdown, cfgVars,
                   notifyVars, diskVars, budget, apc, pending, backoff, delays,
                   evicted, loaded>>

\* dbnet::run: the select ends, on the signal (the acceptor is abandoned
\* where it stands) or on the error Listener::run returned
NetShutdown ==
    /\ pc[MainTask] = "run"
    /\ shutdown' = TRUE
    /\ pc' = [pc EXCEPT ![MainTask] = "drain"]
    /\ apc' = IF apc = "error" THEN "error" ELSE "abandoned"
    /\ UNCHANGED <<tableVars, lockVars, connVars, handles, cfgVars,
                   notifyVars, diskVars, budget, live, climit, pending, backoff,
                   delays, evicted, loaded>>

NetNext ==
    \/ NetAcquire
    \/ \E c \in Conns : NetAcceptOk(c)
    \/ NetAcceptErr
    \/ NetDelay
    \/ \E c \in Conns : NetTeardown(c)
    \/ NetShutdown

NetSpec == NetInit /\ [][NetNext]_vars

\* ------------------------------------------------------------ properties
\* connection c applies command op to the table in this step
Applies(c, op) ==
    /\ pc[c] \in {"csW", "csR"}
    /\ cmd[c].op = op
    /\ pc'[c] = "resp"
\* task p has returned and its handle is being or has been dropped
Returned(p) == pc[p] \in {"drop", "drop_lock", "drop_set", "drop_notify", "drop_arc", "gone"}
\* the single response a GET writes for a present value
Found(v) == <<GroupBegin(1), BytesWrapper(v)>>

\* C1: SET(k, v) is create-only. Applied to a table without k it inserts
\* k -> v and answers OK; applied to a table with k it leaves the table as
\* it is (so k keeps its old value) and answers OVERWRITE_ERR.
C1_SetCreateOnly ==
    [][\A c \in Conns : Applies(c, "SET") =>
          LET k == cmd[c].args[1]
              v == cmd[c].args[2]
          IN IF k \notin DOMAIN coremap
             THEN /\ coremap' = MapInsert(coremap, k, from_string(v))
                  /\ resp'[c] = <<R_OKAY>>
             ELSE /\ coremap' = coremap
                  /\ resp'[c] = <<R_OVERWRITE_ERR>>]_vars
\* one SET created a key and another SET of the same key with another value
\* was refused; the key holds the first value
C1_Witness ==
    \E c, d \in Conns :
        /\ pc[c] = "resp" /\ cmd[c].op = "SET" /\ resp[c] = <<R_OKAY>>
        /\ pc[d] = "resp" /\ cmd[d].op = "SET" /\ resp[d] = <<R_OVERWRITE_ERR>>
        /\ Len(cmd[c].args) = 2 /\ Len(cmd[d].args) = 2
        /\ cmd[c].args[1] = cmd[d].args[1]
        /\ cmd[c].args[2] # cmd[d].args[2]
        /\ cmd[c].args[1] \in DOMAIN coremap
        /\ coremap[cmd[c].args[1]] = from_string(cmd[c].args[2])

\* C2: UPDATE(k, v) is replace-only. Applied to a table with k it replaces
\* the value of k by v and answers OK; applied to a table without k it
\* leaves the table as it is (k is not created) and answers NIL.
C2_UpdateReplaceOnly ==
    [][\A c \in Conns : Applies(c, "UPDATE") =>
          LET k == cmd[c].args[1]
              v == cmd[c].args[2]
          IN IF k \in DOMAIN coremap
             THEN /\ coremap' = [coremap EXCEPT ![k] = from_string(v)]
                  /\ resp'[c] = <<R_OKAY>>
             ELSE /\ coremap' = coremap
                  /\ resp'[c] = <<R_NIL>>]_vars
\* one UPDATE replaced the value the server was started with (the data file
\* still holds the old one) and another UPDATE, of an absent key, was
\* answered NIL and did not create the key
C2_Witness ==
    \E c, d \in Conns :
        /\ pc[c] = "resp" /\ cmd[c].op = "UPDATE" /\ resp[c] = <<R_OKAY>>
        /\ pc[d] = "resp" /\ cmd[d].op = "UPDATE" /\ resp[d] = <<R_NIL>>
        /\ Len(cmd[c].args) = 2 /\ Len(cmd[d].args) = 2
        /\ cmd[c].args[1] \in DOMAIN coremap
        /\ coremap[cmd[c].args[1]] = from_string(cmd[c].args[2])
        /\ datafile # NoFile
        /\ cmd[c].args[1] \in DOMAIN get_saved(datafile)
        /\ get_saved(datafile)[cmd[c].args[1]] # coremap[cmd[c].args[1]]
        /\ cmd[d].args[1] \notin DOMAIN coremap

\* C3: a stored value persists. A successful SET(k, v) stores v under k;
\* the value stored under a key changes or disappears only in the step of a
\* FLUSHDB or of a successful UPDATE of that key (not in a failed SET or
\* UPDATE, not in an operation on another key); and a GET of a present key
\* answers with the value stored at that moment.
C3_ValuePersists ==
    [][/\ \A c \in Conns :
             Applies(c, "SET") /\ resp'[c] = <<R_OKAY>> =>
                /\ cmd[c].args[1] \in DOMAIN coremap'
                /\ get_blob(coremap'[cmd[c].args[1]]) = cmd[c].args[2]
       /\ \A k \in DOMAIN coremap :
             (k \notin DOMAIN coremap' \/ coremap'[k] # coremap[k]) =>
                \E c \in Conns :
                   \/ Applies(c, "FLUSHDB")
                   \/ /\ Applies(c, "UPDATE")
                      /\ cmd[c].args[1] = k
                      /\ resp'[c] = <<R_OKAY>>
       /\ \A c \in Conns :
             Applies(c, "GET") /\ cmd[c].args[1] \in DOMAIN coremap =>
                resp'[c] = Found(get_blob(coremap[cmd[c].args[1]]))]_vars
\* a SET was answered OK and a GET of the same key, on another connection,
\* was answered with the value that SET stored
C3_Witness ==
    \E c, d \in Conns :
        /\ pc[c] = "resp" /\ cmd[c].op = "SET" /\ resp[c] = <<R_OKAY>>
        /\ pc[d] = "resp" /\ cmd[d].op = "GET" /\ Len(cmd[d].args) = 1
        /\ cmd[d].args[1] = cmd[c].args[1]
        /\ resp[d] = Found(cmd[c].args[2])

\* C4: FLUSHDB without arguments, holding the write lock, removes every
\* entry in one step, answers OK and leaves terminate as it is; DBSIZE,
\* holding the read lock, answers with the exact number of entries at that
\* moment; and entries appear only in the step of a successful SET, so a
\* DBSIZE after a FLUSHDB with no successful SET in between answers 0.
C4_FlushdbEmpties ==
    [][/\ \A c \in Conns :
             Applies(c, "FLUSHDB") =>
                /\ lockW = c
                /\ DOMAIN coremap' = {}
                /\ resp'[c] = <<R_OKAY>>
                /\ terminate' = terminate
       /\ \A c \in Conns :
             Applies(c, "DBSIZE") =>
                /\ c \in lockR
                /\ resp'[c] = <<GroupBegin(1), Usize(Cardinality(DOMAIN coremap))>>
       /\ ~(DOMAIN coremap' \subseteq DOMAIN coremap) =>
             \E c \in Conns : Applies(c, "SET") /\ resp'[c] = <<R_OKAY>>]_vars
\* the server started on a non-empty table; a FLUSHDB was answered OK and a
\* DBSIZE on another connection was then answered 0
C4_Witness ==
    \E c, d \in Conns :
        /\ pc[c] = "resp" /\ cmd[c].op = "FLUSHDB" /\ resp[c] = <<R_OKAY>>
        /\ pc[d] = "resp" /\ cmd[d].op = "DBSIZE"
        /\ resp[d] = <<GroupBegin(1), Usize(0)>>
        /\ datafile # NoFile /\ nsaves = 0
        /\ DOMAIN get_saved(datafile) # {}

\* C5: a supported command read with a number of arguments other than the
\* one it takes (SET and UPDATE 2, GET 1, FLUSHDB and DBSIZE 0) is answered
\* ACTION_ERR in a step that takes no lock and leaves the table and
\* terminate as they are; the connection then goes back to reading queries.
C5_WrongArity ==
    [][\A c \in Conns :
          LET takes(op) == CASE op \in {"SET", "UPDATE"} -> 2
                             [] op = "GET" -> 1
                             [] OTHER -> 0
          IN /\ (pc[c] = "wait" /\ cmd'[c] # NoCmd
                   /\ Len(cmd'[c].args) # takes(cmd'[c].op)) =>
                   /\ resp'[c] = <<R_ACTION_ERR>>
                   /\ pc'[c] = "resp"
                   /\ UNCHANGED <<coremap, terminate, lockW, lockR, handles>>
             /\ (pc[c] = "resp" /\ resp[c] = <<R_ACTION_ERR>> /\ pc'[c] # "resp") =>
                   /\ pc'[c] = "wait"
                   /\ c \in handles']_vars
\* a connection was answered ACTION_ERR for a FLUSHDB with an argument, on
\* a non-empty table
C5_Witness ==
    \E c \in Conns :
        /\ pc[c] = "resp" /\ resp[c] = <<R_ACTION_ERR>>
        /\ cmd[c].op = "FLUSHDB" /\ Len(cmd[c].args) = 1
        /\ DOMAIN coremap # {}
        /\ c \in handles

\* C6: the table lock is exclusive for writers. While a task holds the
\* write lock no task holds the read lock; the tasks inside a write section
\* (a SET, UPDATE or FLUSHDB handler, or a Drop setting terminate) are
\* exactly the one holder of the write lock, and the tasks inside a read
\* section (a GET or DBSIZE handler, or a flush) are exactly the holders of
\* the read lock: no read or write overlaps a write.
C6_WritersExclusive ==
    /\ lockW # NoTask => lockR = {}
    /\ \A p \in Tasks : pc[p] \in {"csW", "drop_set"} <=> lockW = p
    /\ \A p \in Tasks : pc[p] \in {"csR", "write"} <=> p \in lockR
\* a connection is inside its write section while a background service is
\* about to take the read lock for a flush
C6_Witness ==
    \E c \in Conns, p \in BgTasks :
        /\ pc[c] = "csW" /\ lockW = c
        /\ pc[p] = "save" /\ ~terminate

\* C7: a file BGSAVE or mksnap writes holds one table. From the moment the
\* flush has collected the keys until it has written the file the table
\* does not change, so the keys and the values it writes are those of one
\* table: a ./data.bin or snapshot file whose contents the flush replaces
\* by a complete store decodes to the table as it is at the write.
C7_FlushIsSnapshot ==
    [][/\ \A p \in BgTasks :
             pc[p] = "write" =>
                /\ p \in lockR
                /\ ks[p] = KeysOf(coremap)
                /\ coremap' = coremap
       /\ (pc[BgsaveTask] = "write" /\ datafile' # datafile
             /\ datafile'.kind = "store") =>
                /\ Len(datafile'.keys) = Len(datafile'.vals)
                /\ get_saved(datafile') = coremap
       /\ (pc[SnapshotTask] = "write" /\ snapfiles'[snapname] # snapfiles[snapname]
             /\ snapfiles'[snapname].kind = "store") =>
                /\ Len(snapfiles'[snapname].keys) = Len(snapfiles'[snapname].vals)
                /\ get_saved(snapfiles'[snapname]) = coremap]_vars
\* BGSAVE wrote a table holding a key that a SET had added, and the table
\* has changed since
C7_Witness ==
    /\ datafile # NoFile /\ datafile # Truncated
    /\ "b" \in DOMAIN get_saved(datafile)
    /\ pc[BgsaveTask] = "sleep"
    /\ get_saved(datafile) # coremap

\* C8: terminate starts false and never goes from true to false.
C8_TerminateMonotonic ==
    /\ terminate = FALSE
    /\ [][terminate => terminate']_vars
\* terminate is true while a connection has just flushed the table
C8_Witness ==
    /\ terminate
    /\ \E c \in Conns :
          pc[c] = "resp" /\ cmd[c].op = "FLUSHDB" /\ resp[c] = <<R_OKAY>>

\* C9: when the last handle held outside the background services has been
\* dropped, terminate is true, whichever services the configuration enables.
C9_LastDropTerminates ==
    (/\ pc[MainTask] = "gone"
     /\ \A c \in Conns : pc[c] \in {"none", "gone"}) => terminate
\* both services are enabled and running, and the drop of the acceptor's
\* handle, the last one outside them, has set terminate
C9_Witness ==
    /\ bgsave_cfg = "Enabled" /\ ss_config.enabled
    /\ pc[MainTask] = "gone"
    /\ \A c \in Conns : pc[c] \in {"none", "gone"}
    /\ handles \subseteq BgTasks
    /\ terminate /\ bgsave_task.permit /\ snapshot_service.permit

\* C10: once shutdown has set terminate and fired the notifiers, both
\* background service tasks eventually return.
C10_ServicesReturn ==
    (terminate /\ snapshot_service.permit)
        ~> (Returned(BgsaveTask) /\ Returned(SnapshotTask))
\* shutdown has set terminate and fired the notifiers while both enabled
\* services were running, and both have returned
C10_Witness ==
    /\ bgsave_cfg = "Enabled" /\ ss_config.enabled
    /\ terminate /\ snapshot_service.permit
    /\ pc[BgsaveTask] = "gone" /\ pc[SnapshotTask] = "gone"
    /\ nsaves > 0

\* the acceptor's run function has left its drain wait
RunReturned == pc[MainTask] \notin {"run", "drain"}

\* C11: after shutdown, run returns only when every connection task that
\* was spawned has completed: it leaves the drain wait only in a state where
\* no sender of the drain channel is left, every spawned connection task is
\* gone at every moment after that, and no connection task is spawned once
\* the acceptor loop has been abandoned.
C11_RunAfterConnections ==
    [][/\ (~RunReturned /\ RunReturned') =>
             /\ shutdown
             /\ drain_senders = {}
       /\ RunReturned' => \A c \in Conns : pc'[c] \in {"none", "gone"}
       /\ pc[MainTask] # "run" =>
             \A c \in Conns : pc[c] = "none" => pc'[c] = "none"]_vars
\* run has returned after two connection tasks were spawned, one of which
\* had executed a query
C11_Witness ==
    /\ RunReturned
    /\ \A c \in Conns : pc[c] = "gone"
    /\ ncmds > 0

\* C12: after shutdown, run returns only when both background services
\* have exited.
C12_RunAfterServices ==
    pc[MainTask] = "gone" => (pc[BgsaveTask] = "gone" /\ pc[SnapshotTask] = "gone")

\* the snapshot files present on disk
OnDisk == {f \in SnapNames : snapfiles[f] # NoFile}
\* the paths the engine's queue holds
Queued == {snaps.queue[i] : i \in 1 .. Len(snaps.queue)}

\* C13: in rotating mode with capacity M, once M or more mksnap calls have
\* succeeded (the queue is full) and no write has failed half-way, exactly M
\* snapshot files are on disk and they are the files the queue names.
C13_RotationKeepsM ==
    (/\ ~snaps.dontpop
     /\ Len(snaps.queue) = snaps.maxlen
     /\ pc[SnapshotTask] # "write"
     /\ \A f \in SnapNames : snapfiles[f] # Truncated)
        => (OnDisk = Queued /\ Cardinality(OnDisk) = snaps.maxlen)
\* capacity 1, two snapshots taken in different seconds: the first file is
\* gone, the second is on disk and in the queue
C13_Witness ==
    /\ ~snaps.dontpop /\ snaps.maxlen = 1
    /\ snaps.queue = <<get_snapname(1)>>
    /\ snapfiles[get_snapname(0)] = NoFile
    /\ snapfiles[get_snapname(1)].kind = "store"
    /\ pc[SnapshotTask] = "sleep"

\* C14: in rotating mode the queue never holds more than M paths.
C14_QueueBounded ==
    ~snaps.dontpop => Len(snaps.queue) <= snaps.maxlen
\* a full rotating queue of capacity 2 whose last add evicted a path
C14_Witness ==
    /\ ~snaps.dontpop /\ snaps.maxlen = 2
    /\ Len(snaps.queue) = 2
    /\ evicted # << >>

C16_RoundTrip ==
    (/\ nsaves > 0
     /\ datafile # Truncated
     /\ loaded.kind = "read"
     /\ loaded.file = datafile)
        => /\ loaded.res.kind = "some"
           /\ DOMAIN loaded.res.table = DOMAIN coremap
           /\ \A k \in DOMAIN coremap :
                 get_blob(loaded.res.table[k]) = get_blob(coremap[k])
\* a table of two keys with different values was flushed and read back
C16_Witness ==
    /\ nsaves > 0
    /\ loaded.kind = "read"
    /\ loaded.file = datafile
    /\ loaded.res.kind = "some"
    /\ DOMAIN coremap = Keys
    /\ get_blob(coremap["a"]) # get_blob(coremap["b"])

\* C17: decoding a file whose key sequence and value sequence differ in
\* length fails: get_saved returns an error for it, never a table.
C17_UnequalLengthsFail ==
    (/\ loaded.kind = "read"
     /\ loaded.file \notin {NoFile, Truncated}
     /\ Len(loaded.file.keys) # Len(loaded.file.vals))
        => loaded.res.kind = "err"
\* such a file was read
C17_Witness ==
    /\ loaded.kind = "read"
    /\ loaded.file \notin {NoFile, Truncated}
    /\ Len(loaded.file.keys) # Len(loaded.file.vals)

\* a handler is torn down in this step
TornDown(c) == c \in live /\ c \notin live'

\* C18, as stated: in every reachable state the live connection tasks plus
\* the permits available equal the capacity, and each handler teardown adds
\* exactly one permit back.
C18_PermitAccounting ==
    /\ [](Cardinality(live) + climit = MaxPermits)
    /\ [][\A c \in Conns : TornDown(c) => climit' = climit + 1]_vars
\* C18, amended: the live connection tasks, the permits available and the
\* permit the acceptor has taken and forgotten for a connection it has not
\* spawned a task for add up to the capacity in every reachable state, and
\* each handler teardown adds exactly one permit back and ends one task.
C18_PermitAccountingHeld ==
    /\ [](Cardinality(live) + climit + pending = MaxPermits)
    /\ [](pending \in {0, 1})
    /\ [][\A c \in Conns :
             TornDown(c) => climit' = climit + 1 /\ live' = live \ {c}]_vars
\* a handler was torn down and the acceptor holds the permit it returned
C18_Witness ==
    /\ pending = 1
    /\ \E c \in Conns : pc[c] = "gone"
    /\ Cardinality(live) + climit = MaxPermits - 1

\* C19: the live connection tasks never exceed the capacity, the available
\* permits never exceed the capacity, and the acceptor is in accept only
\* with a permit it took: the step that takes it to accept finds a permit
\* available and removes it.
C19_ConcurrencyCapped ==
    /\ [](Cardinality(live) <= MaxPermits)
    /\ [](climit <= MaxPermits)
    /\ [](apc \in {"accept", "delay"} => pending = 1)
    /\ [][apc = "acquire" /\ apc' = "accept" =>
             climit > 0 /\ climit' = climit - 1]_vars
\* the permits are exhausted and the acceptor waits on the semaphore
C19_Witness ==
    /\ pc[MainTask] = "run"
    /\ apc = "acquire"
    /\ climit = 0
    /\ Cardinality(live) = MaxPermits

\* C20: within one call of accept the delay served after the k-th
\* consecutive failure is 2^(k-1) seconds, for k = 1..7; a success at any
\* attempt ends the call with a stream, for which a task is spawned; the
\* error is returned exactly on a failure that follows seven delays; and the
\* next call starts again with a backoff of 1 and no delay served.
C20_AcceptBackoff ==
    /\ [](\A i \in 1 .. Len(delays) : delays[i] = 2 ^ (i - 1))
    /\ [](Len(delays) <= 7)
    /\ [](apc = "error" => Len(delays) = 7)
    /\ [][/\ apc = "accept" /\ apc' = "delay" => Len(delays) < 7
          /\ apc = "accept" /\ apc' = "error" => Len(delays) = 7
          /\ apc = "delay" /\ apc' = "accept" =>
                delays' = Append(delays, 2 ^ Len(delays))
          /\ apc = "accept" /\ apc' = "acquire" =>
                \E c \in Conns : live' = live \cup {c} /\ c \notin live
          /\ apc = "acquire" /\ apc' = "accept" =>
                backoff' = 1 /\ delays' = << >>]_vars
\* the eighth failure in a row of a call made after an earlier call returned
\* a stream
C20_Witness ==
    /\ apc = "error"
    /\ delays = <<1, 2, 4, 8, 16, 32, 64>>
    /\ \E c \in Conns : pc[c] # "none"

\* C21: no persistence write starts once terminate is true. A service is
\* writing only with terminate false and the read lock held; a file or the
\* queue changes only in a step of a service that was writing; and
\* run_bgsave or mksnap called with terminate true returns false, leaving
\* every file, the queue and the lock as they were.
C21_NoWriteAfterTerminate ==
    /\ [](\A p \in BgTasks : pc[p] = "write" => ~terminate /\ p \in lockR)
    /\ [][/\ (datafile' # datafile \/ snapfiles' # snapfiles \/ snaps' # snaps)
                => \E p \in BgTasks : pc[p] = "write" /\ pc'[p] # "write"
          /\ \A p \in BgTasks :
                (pc[p] = "save" /\ pc'[p] # "save" /\ terminate) =>
                    /\ pc'[p] = "park"
                    /\ datafile' = datafile /\ snapfiles' = snapfiles
                    /\ snaps' = snaps /\ lockR' = lockR]_vars
\* a service found terminate set in run_bgsave or mksnap and returned false
C21_Witness ==
    /\ terminate
    /\ \E p \in BgTasks : pc[p] = "park"

\* C22: the database does not shut down while a flush is in flight.
\* terminate goes from false to true only in a state where no service is
\* writing and nobody holds the read lock, and the write lock is granted to
\* a dropping handle only when every read lock has been released.
C22_NoShutdownDuringFlush ==
    [][/\ (~terminate /\ terminate') =>
             /\ lockR = {}
             /\ \A p \in BgTasks : pc[p] # "write"
       /\ \A p \in Tasks :
             (pc[p] = "drop_lock" /\ pc'[p] = "drop_set") => lockR = {}]_vars
\* a dropping handle waits for the write lock while a flush holds the read
\* lock
C22_Witness ==
    /\ \E p \in Tasks : pc[p] = "drop_lock"
    /\ \E q \in BgTasks : pc[q] = "write" /\ q \in lockR

\* task p holds the table lock, in either mode
HoldsLock(p) == p \in lockR \/ lockW = p

\* C23: no task holds the table lock across a suspension point. A connection
\* task in its select (socket read or shutdown receiver) or writing its
\* response, and a service waiting on its timer or on the notifier, holds
\* neither the read nor the write lock; and every step that writes a response
\* item is taken before the handler has the lock or releases it.
C23_NoLockAcrossAwait ==
    /\ [](\A c \in Conns : pc[c] \in {"wait", "resp"} => ~HoldsLock(c))
    /\ [](\A p \in BgTasks : pc[p] \in {"sleep", "park", "parkd"} => ~HoldsLock(p))
    /\ [][\A c \in Conns :
             resp'[c] # resp[c] =>
                 \/ ~HoldsLock(c)
                 \/ ~(c \in lockR' \/ lockW' = c)]_vars
\* a handler is writing the value it read under the lock while the BGSAVE
\* scheduler sleeps after a flush, and another task has the lock
C23_Witness ==
    /\ \E c \in Conns :
          /\ pc[c] = "resp" /\ cmd[c].op = "GET" /\ Len(resp[c]) = 2
          /\ \E d \in Conns : d # c /\ HoldsLock(d)
    /\ pc[BgsaveTask] = "sleep"

\* service p leaves the place `from` in this step
Leaves(p, from) == pc[p] = from /\ pc'[p] # from

\* C24: a failed BGSAVE write is not fatal. Whatever flush_data returned,
\* the step that ends run_bgsave leaves the table and terminate (false) as
\* they were and takes the scheduler to its wait on the interval and the
\* notifier; the wait ends in the loop test, and with terminate still false
\* the test leads to run_bgsave, which takes the read lock and writes again.
C24_FailedBgsaveNotFatal ==
    [][/\ Leaves(BgsaveTask, "write") =>
             /\ pc'[BgsaveTask] = "sleep"
             /\ ~terminate /\ ~terminate'
             /\ coremap' = coremap
       /\ Leaves(BgsaveTask, "sleep") => pc'[BgsaveTask] = "check"
       /\ (Leaves(BgsaveTask, "check") /\ ~terminate) => pc'[BgsaveTask] = "save"
       /\ (Leaves(BgsaveTask, "save") /\ ~terminate) =>
             pc'[BgsaveTask] = "write" /\ BgsaveTask \in lockR']_vars
\* the scheduler is writing again after a write that failed and left the
\* file truncated
C24_Witness ==
    /\ ~ss_config.enabled
    /\ datafile = Truncated
    /\ pc[BgsaveTask] = "write"
    /\ nsaves >= 2
    /\ ~terminate

\* C25: a failed snapshot write is not fatal and leaves the retention state
\* alone. When flush_data fails inside mksnap (the file could not be created,
\* or was left truncated), the queue is unchanged, no other file changes, no
\* file is removed, terminate stays false and the service goes to its wait
\* on the interval and the notifier; whatever the write's outcome, the
\* service leaves mksnap for that wait.
C25_FailedSnapshotNotFatal ==
    [][/\ Leaves(SnapshotTask, "write") => pc'[SnapshotTask] = "sleep"
       /\ \A outcome \in FlushOutcomes \ {"ok"}, rm_ok \in BOOLEAN :
             MksnapWrite(outcome, rm_ok) =>
                 /\ snaps' = snaps
                 /\ \A n \in SnapNames :
                       /\ n # snapname => snapfiles'[n] = snapfiles[n]
                       /\ snapfiles[n] # NoFile => snapfiles'[n] # NoFile
                 /\ ~terminate /\ ~terminate'
                 /\ pc'[SnapshotTask] = "sleep"
       /\ snapfiles'[snapname] = Truncated /\ snapfiles[snapname] # Truncated
             => snaps' = snaps]_vars
\* the service waits after a write that failed: the truncated file is not
\* in the queue, and the snapshot taken before it is still queued and on disk
C25_Witness ==
    /\ pc[SnapshotTask] = "sleep"
    /\ snaps.queue # << >>
    /\ \A i \in 1 .. Len(snaps.queue) : snapfiles[snaps.queue[i]].kind = "store"
    /\ \E n \in SnapNames :
          /\ snapfiles[n] = Truncated
          /\ \A i \in 1 .. Len(snaps.queue) : snaps.queue[i] # n

\* service p arrives at the place `to` in this step
Arrives(p, to) == pc[p] # to /\ pc'[p] = to

InCommand == {"csW", "csR", "resp"}

\* C27: shutdown is cooperative per connection. A handler that has a query
\* in hand completes it: it leaves the command only for its select, its
\* response written. Once the broadcast sender is dropped, a handler in its
\* select leaves it only to exit, executing no further command. And every
\* handler alive at the shutdown is eventually gone, its drain sender
\* dropped.
C27_CooperativeShutdown ==
    /\ [][\A c \in Conns :
             /\ (pc[c] \in InCommand /\ pc'[c] \notin InCommand) =>
                   pc'[c] = "wait" /\ Len(resp[c]) > 0
             /\ (shutdown /\ Leaves(c, "wait")) => pc'[c] \notin InCommand]_pc
    /\ \A c \in Conns :
          [](shutdown /\ pc[c] # "none" =>
                <>(pc[c] = "gone" /\ c \notin drain_senders))
\* the sender is dropped while one handler has a query in hand and another
\* waits in its select
C27_Witness ==
    /\ shutdown
    /\ \E c, d \in Conns : pc[c] \in InCommand /\ pc[d] = "wait"

\* the tasks that hold a foreground handle: dbnet::run (the Listener's db)
\* and the connection tasks
Foreground == {MainTask} \cup Conns

\* C28: terminate is never set to true while a foreground holder of the
\* database still exists. In the step that sets it, every foreground task
\* that still owns a handle is the task whose drop sets it; the drop of a
\* background service's handle never sets it.
C28_TerminateAfterForeground ==
    [][(~terminate /\ terminate') =>
           \A f \in Foreground : f \in handles => pc[f] = "drop_set"]_vars
\* terminate is set while dbnet::run is still in its select, the snapshot
\* service having returned
C28_Witness ==
    /\ terminate
    /\ pc[MainTask] = "run"
    /\ pc[SnapshotTask] \in {"drop_notify", "drop_arc", "gone"}

\* C29: the shutdown notification is ordered after the flag. The task that
\* fires the notifiers has set terminate and released the write lock; a
\* notification is stored or delivered only with terminate true; a service
\* whose wait is ended by a notification finds terminate true, as it does at
\* its next loop test, which it leaves to return; and no flush or snapshot is
\* entered with terminate true.
C29_NotifyAfterFlag ==
    /\ [](\A p \in Tasks : pc[p] = "drop_notify" => terminate /\ ~HoldsLock(p))
    /\ [](bgsave_task.permit \/ bgsave_task.woken # {} => terminate)
    /\ [][\A p \in BgTasks :
             /\ Notified(p) => terminate /\ terminate'
             /\ (terminate /\ Leaves(p, "check")) => pc'[p] = "drop"
             /\ Arrives(p, "write") => ~terminate]_vars
\* the shutdown has notified the scheduler, asleep after a flush
C29_Witness ==
    /\ terminate
    /\ pc[BgsaveTask] = "sleep"
    /\ BgsaveTask \in bgsave_task.woken
    /\ nsaves >= 1

\* C30: in rotating mode every path the queue holds names a file that exists
\* on disk, between mksnap calls, whether or not two calls generated the same
\* name (a write that fails queues nothing and removes nothing, and every
\* removal succeeds).
C30_QueuedFilesExist ==
    (~snaps.dontpop /\ pc[SnapshotTask] # "write") =>
        \A i \in 1 .. Len(snaps.queue) : snapfiles[snaps.queue[i]] # NoFile
\* two calls in the same second have queued the same name twice, and its
\* file is on disk
C30_Witness ==
    /\ ~snaps.dontpop
    /\ \E i, j \in 1 .. Len(snaps.queue) :
          i # j /\ snaps.queue[i] = snaps.queue[j]
    /\ \A i \in 1 .. Len(snaps.queue) : snapfiles[snaps.queue[i]].kind = "store"
====
